---- MODULE Spec2Model ----
(***************************************************************************)
(* Courtify booking backend (src/server.js): the booking store kept in     *)
(* bookings.json, the four mutating handlers (create, confirm, reschedule, *)
(* cancel) and the helpers they share.  Every handler is an async function *)
(* that yields at each await, so a request is a small process whose steps  *)
(* are the file-system operations it awaits; the synchronous code between  *)
(* two awaits is part of the step that precedes it.                        *)
(***************************************************************************)
EXTENDS Integers, Sequences, FiniteSets, TLC

\* ---------------------------------------------------------------- bounds
\* Number of booking ids (uuidv4 values) the model hands out.
MaxBookings == 2
\* Number of history entries the stored collection may grow to, all bookings
\* together (one per successful create, confirm, reschedule or cancel).
MaxOps == 3
\* Largest reading of the wall clock (new Date()).
MaxClock == 1
\* Number of requests that may be in flight at the same time.
MaxInFlight == 2
\* Number of coupon validations the page may have in flight at the same time.
MaxValidating == 1

\* ------------------------------------------------------------- JS values
\* A JSON value of a request body is <<kind, text>>, text being the value's
\* canonical string form, so that String(v) is what JavaScript computes.
S(t) == <<"string", t>>
N(t) == <<"number", t>>

\* String(v): the string with the value's text.
String(v) == <<"string", v[2]>>

\* A value used as a number is <<kind, n>>: a field that is unset, a JSON
\* null, the number n, a string that reads as the number n ("numeral"), any
\* other string ("text"), or NaN.  A price sent to the coupon routes is
\* counted in thousandths of the currency unit, a price of a booking in
\* cents, a usage count in units.
Undefined == <<"undefined", 0>>
Null == <<"null", 0>>
Num(n) == <<"number", n>>
NaN == <<"NaN", 0>>

\* Number(v) for a value that is not null.
Number(v) ==
  CASE v[1] \in {"number", "numeral"} -> Num(v[2])
    [] OTHER -> NaN

\* JSON.parse(JSON.stringify(v)) for a number or null: NaN is written null.
Json(v) == IF v = NaN THEN Null ELSE v

\* !v is false exactly for the truthy values.
Truthy(v) == ~(v = S("") \/ v = N("0") \/ v[1] \in {"undefined", "null"})

\* Request inputs: the bodies of POST /api/book and of the reschedule route.
UnitIds == {S("1"), S("2")}
Dates == {S("2025-01-01")}
Times == {S("09:00"), S("10:00")}
GoodBody(u, d, t) ==
  [serviceId |-> S("badminton"), unitId |-> u, date |-> d, time |-> t,
   customerName |-> S("Ann"), price |-> Undefined]
CreateBodies ==
  {GoodBody(u, d, t) : u \in UnitIds, d \in Dates, t \in Times}
    \cup {[GoodBody(S("1"), S("2025-01-01"), S("09:00")) EXCEPT ![f] = S("")] :
            f \in {"serviceId", "unitId", "date", "time", "customerName"}}
RescheduleBodies ==
  {[date |-> d, time |-> t] : d \in Dates, t \in Times}
    \cup {[date |-> S(""), time |-> S("09:00")],
          [date |-> S("2025-01-01"), time |-> S("")]}
\* Booking ids are 1..MaxBookings; NoId is the null excludeId / no target,
\* EmptyId the empty string given as excludeId.
NoId == 0
EmptyId == -1

\* excludeId && ...: null and "" are falsy, an id is not.
TruthyId(id) == id # NoId /\ id # EmptyId
Procs == 1..MaxInFlight

VARIABLES
  mock,      \* MOCK_MODE, fixed when the process starts
  exists,    \* bookings.json is present on disk
  file,      \* the collection bookings.json holds (parsed), <<>> when absent
  tmpExists, \* bookings.json.tmp is present on disk
  tmp,       \* the collection bookings.json.tmp holds
  clock,     \* the wall clock
  nextId,    \* number of ids handed out by uuidv4 so far
  reqs,      \* the requests in flight, one per process slot
  last,      \* the response sent by the step just taken
  couponsExists, \* coupons.json is present on disk
  coupons,   \* the catalog coupons.json holds (parsed), <<>> when absent
  call,      \* a call drawn when the run starts and made once: its arguments
  fileState, \* what bookings.json holds: "whole" (what one write wrote, in
             \* full), "empty" (truncated, not written yet) or "mixed"
  tmpState,  \* the same of bookings.json.tmp
  fd,        \* per handler, the file its open descriptor names by now
  page       \* the page in the browser (main.js): its variables, its
             \* coupon dropdown and its requests in flight

vars == <<mock, exists, file, tmpExists, tmp, clock, nextId, reqs, last,
          couponsExists, coupons, call, fileState, tmpState, fd, page>>

\* The files as far as a write in progress has got with them.
io == <<fileState, tmpState, fd>>

\* What the booking routes never touch: coupons.json, the call drawn, and
\* the page.
side == <<couponsExists, coupons, call, page>>

\* --------------------------------------------------------------- helpers
\* Array.prototype.findIndex(b => b.id === id): the first index holding the
\* id; 0 stands for JavaScript's -1 (sequences are 1-based here).
findIndex(bookings, id) ==
  IF \E i \in 1..Len(bookings) : bookings[i].id = id
  THEN CHOOSE i \in 1..Len(bookings) :
         /\ bookings[i].id = id
         /\ \A j \in 1..(i - 1) : bookings[j].id # id
  ELSE 0

\* hasConflict with the time compared to the date (a slip of one name), so
\* that no booking ever matches.
hasConflictWrongField(bookings, unitId, date, time, excludeId) ==
  \E i \in 1..Len(bookings) :
    LET b == bookings[i] IN
      IF TruthyId(excludeId) /\ b.id = excludeId THEN FALSE
      ELSE IF b.status = "cancelled" THEN FALSE
      ELSE /\ String(b.unitId) = String(unitId)
           /\ String(b.date) = String(date)
           /\ String(b.time) = String(date)

\* hasConflict comparing the values as they are, with no String().
hasConflictNoCoercion(bookings, unitId, date, time, excludeId) ==
  \E i \in 1..Len(bookings) :
    LET b == bookings[i] IN
      IF TruthyId(excludeId) /\ b.id = excludeId THEN FALSE
      ELSE IF b.status = "cancelled" THEN FALSE
      ELSE /\ b.unitId = unitId
           /\ b.date = date
           /\ b.time = time

\* hasConflict without the line that skips cancelled bookings.
hasConflictAnyStatus(bookings, unitId, date, time, excludeId) ==
  \E i \in 1..Len(bookings) :
    LET b == bookings[i] IN
      IF TruthyId(excludeId) /\ b.id = excludeId THEN FALSE
      ELSE /\ String(b.unitId) = String(unitId)
           /\ String(b.date) = String(date)
           /\ String(b.time) = String(time)

\* hasConflict(bookings, unitId, date, time, excludeId = null)
hasConflict(bookings, unitId, date, time, excludeId) ==
  \E i \in 1..Len(bookings) :
    LET b == bookings[i] IN
      IF TruthyId(excludeId) /\ b.id = excludeId THEN FALSE
      ELSE IF b.status = "cancelled" THEN FALSE
      ELSE /\ String(b.unitId) = String(unitId)
           /\ String(b.date) = String(date)
           /\ String(b.time) = String(time)

\* pushHistory(booking, actor, action, note): booking.history gets one entry
\* at its end; now is the reading of new Date().  An empty actor is "system".
pushHistory(booking, actor, action, note, now) ==
  [booking EXCEPT !.history =
     Append(@, [ts |-> now,
                actor |-> IF actor = "" THEN "system" ELSE actor,
                action |-> action,
                note |-> note])]

\* The label of a confirmed booking chosen without MOCK_MODE.
ConfirmedLabelPlain(mockMode) == "confirmed"

\* MOCK_MODE ? "confirmed_mock" : "confirmed"
ConfirmedLabel(mockMode) == IF mockMode THEN "confirmed_mock" ELSE "confirmed"

\* MOCK_MODE ? "confirmed_mock" : "pending"
CreatedLabel(mockMode) == IF mockMode THEN "confirmed_mock" ELSE "pending"

\* The `From ${old} to ${date} ${time}` note of a reschedule, as its parts.
RescheduleNote(booking, date, time) ==
  <<"From", booking.date[2], booking.time[2], "to", date[2], time[2]>>

\* ------------------------------------------------- the handlers' bodies
\* Each body is the synchronous code that runs once readBookingsSafe() has
\* returned `bookings`: the response code, the array handed to
\* writeBookingsSafe (when the code is a success) and the booking returned.

\* POST /api/book: the required-field check made before the store is read.
CreateValid(p) ==
  /\ Truthy(p.serviceId) /\ Truthy(p.unitId) /\ Truthy(p.date)
  /\ Truthy(p.time) /\ Truthy(p.customerName)

\* The create body with bookings.unshift(booking) for bookings.push(booking).
CreateBodyAtFront(bookings, p, id, now, mockMode) ==
  IF hasConflict(bookings, p.unitId, p.date, p.time, NoId)
  THEN [code |-> "409", bookings |-> bookings, out |-> <<>>]
  ELSE LET booking == pushHistory(
             [id |-> id, serviceId |-> p.serviceId, unitId |-> p.unitId,
              date |-> p.date, time |-> p.time,
              customerName |-> p.customerName,
              price |-> IF p.price \in {Undefined, Null} THEN Null
                        ELSE Json(Number(p.price)),
              status |-> CreatedLabel(mockMode),
              createdAt |-> now, updatedAt |-> now, history |-> <<>>],
             "system", "created", <<"Booking created">>, now)
       IN [code |-> "201", bookings |-> <<booking>> \o bookings,
           out |-> <<booking>>]

\* POST /api/book, after the read.
CreateBody(bookings, p, id, now, mockMode) ==
  IF hasConflict(bookings, p.unitId, p.date, p.time, NoId)
  THEN [code |-> "409", bookings |-> bookings, out |-> <<>>]
  ELSE LET booking == pushHistory(
             [id |-> id, serviceId |-> p.serviceId, unitId |-> p.unitId,
              date |-> p.date, time |-> p.time,
              customerName |-> p.customerName,
              price |-> IF p.price \in {Undefined, Null} THEN Null
                        ELSE Json(Number(p.price)),
              status |-> CreatedLabel(mockMode),
              createdAt |-> now, updatedAt |-> now, history |-> <<>>],
             "system", "created", <<"Booking created">>, now)
       IN [code |-> "201", bookings |-> Append(bookings, booking),
           out |-> <<booking>>]

\* The confirm body without its check of the cancelled status.
ConfirmBodyAnyStatus(bookings, id, now, mockMode) ==
  LET idx == findIndex(bookings, id) IN
    IF idx = 0 THEN [code |-> "404", bookings |-> bookings, out |-> <<>>]
    ELSE LET booking == pushHistory(
               [bookings[idx] EXCEPT !.status = ConfirmedLabel(mockMode),
                                     !.updatedAt = now],
               "system", "confirmed", <<"Booking confirmed">>, now)
         IN [code |-> "200", bookings |-> [bookings EXCEPT ![idx] = booking],
             out |-> <<booking>>]

\* POST /api/book/:id/confirm, after the read.
ConfirmBody(bookings, id, now, mockMode) ==
  LET idx == findIndex(bookings, id) IN
    IF idx = 0 THEN [code |-> "404", bookings |-> bookings, out |-> <<>>]
    ELSE IF bookings[idx].status = "cancelled"
    THEN [code |-> "400", bookings |-> bookings, out |-> <<>>]
    ELSE LET booking == pushHistory(
               [bookings[idx] EXCEPT !.status = ConfirmedLabel(mockMode),
                                     !.updatedAt = now],
               "system", "confirmed", <<"Booking confirmed">>, now)
         IN [code |-> "200", bookings |-> [bookings EXCEPT ![idx] = booking],
             out |-> <<booking>>]

\* POST /api/book/:id/reschedule: the check made before the store is read.
RescheduleValid(p) == Truthy(p.date) /\ Truthy(p.time)

\* The reschedule body calling hasConflict without the booking's own id.
RescheduleBodyNoExclude(bookings, id, date, time, now) ==
  LET idx == findIndex(bookings, id) IN
    IF idx = 0 THEN [code |-> "404", bookings |-> bookings, out |-> <<>>]
    ELSE IF hasConflict(bookings, bookings[idx].unitId, date, time, NoId)
    THEN [code |-> "409", bookings |-> bookings, out |-> <<>>]
    ELSE LET booking == pushHistory(
               [bookings[idx] EXCEPT !.date = date, !.time = time,
                                     !.updatedAt = now],
               "user", "rescheduled",
               RescheduleNote(bookings[idx], date, time), now)
         IN [code |-> "200", bookings |-> [bookings EXCEPT ![idx] = booking],
             out |-> <<booking>>]

\* POST /api/book/:id/reschedule, after the read.
RescheduleBody(bookings, id, date, time, now) ==
  LET idx == findIndex(bookings, id) IN
    IF idx = 0 THEN [code |-> "404", bookings |-> bookings, out |-> <<>>]
    ELSE IF hasConflict(bookings, bookings[idx].unitId, date, time,
                        bookings[idx].id)
    THEN [code |-> "409", bookings |-> bookings, out |-> <<>>]
    ELSE LET booking == pushHistory(
               [bookings[idx] EXCEPT !.date = date, !.time = time,
                                     !.updatedAt = now],
               "user", "rescheduled",
               RescheduleNote(bookings[idx], date, time), now)
         IN [code |-> "200", bookings |-> [bookings EXCEPT ![idx] = booking],
             out |-> <<booking>>]

\* The cancel body refusing a booking that is cancelled already.
CancelBodyOnce(bookings, id, now) ==
  LET idx == findIndex(bookings, id) IN
    IF idx = 0 THEN [code |-> "404", bookings |-> bookings, out |-> <<>>]
    ELSE IF bookings[idx].status = "cancelled"
    THEN [code |-> "400", bookings |-> bookings, out |-> <<>>]
    ELSE LET booking == pushHistory(
               [bookings[idx] EXCEPT !.status = "cancelled",
                                     !.updatedAt = now],
               "user", "cancelled", <<"Booking cancelled">>, now)
         IN [code |-> "200", bookings |-> [bookings EXCEPT ![idx] = booking],
             out |-> <<booking>>]

\* POST /api/book/:id/cancel, after the read.
CancelBody(bookings, id, now) ==
  LET idx == findIndex(bookings, id) IN
    IF idx = 0 THEN [code |-> "404", bookings |-> bookings, out |-> <<>>]
    ELSE LET booking == pushHistory(
               [bookings[idx] EXCEPT !.status = "cancelled",
                                     !.updatedAt = now],
               "user", "cancelled", <<"Booking cancelled">>, now)
         IN [code |-> "200", bookings |-> [bookings EXCEPT ![idx] = booking],
             out |-> <<booking>>]

\* The body of a request r on the array just read.
Body(bookings, r, id, now, mockMode) ==
  CASE r.op = "create" -> CreateBody(bookings, r, id, now, mockMode)
    [] r.op = "confirm" -> ConfirmBody(bookings, r.id, now, mockMode)
    [] r.op = "reschedule" ->
         RescheduleBody(bookings, r.id, r.date, r.time, now)
    [] r.op = "cancel" -> CancelBody(bookings, r.id, now)

\* ------------------------------------------------------------- requests
\* Ids a request may name: those uuidv4 can hand out, and one it never does.
ReqIds == 1..(MaxBookings + 1)

\* A process slot with no request in it.  A request carries its body and
\* :id parameter, the array its handler holds (data), the response it will
\* send once the write is through (code), and whether a create on the same
\* slot was answered 201 while it was in flight (rivalWon).
Idle ==
  [pc |-> "idle", op |-> "none", id |-> NoId, serviceId |-> S(""),
   unitId |-> S(""), date |-> S(""), time |-> S(""), customerName |-> S(""),
   price |-> Undefined, data |-> <<>>, code |-> "none", rivalWon |-> FALSE]

CreateReq(body) ==
  [Idle EXCEPT !.op = "create", !.serviceId = body.serviceId,
               !.unitId = body.unitId, !.date = body.date,
               !.time = body.time, !.customerName = body.customerName,
               !.price = body.price]
ConfirmReq(id) == [Idle EXCEPT !.op = "confirm", !.id = id]
RescheduleReq(id, body) ==
  [Idle EXCEPT !.op = "reschedule", !.id = id, !.date = body.date,
               !.time = body.time]
CancelReq(id) == [Idle EXCEPT !.op = "cancel", !.id = id]

\* A handler that reads the store without checking the request first.
ValidUnchecked(r) == TRUE

\* The synchronous checks a handler makes on the request before it reads
\* the store.
Valid(r) ==
  CASE r.op = "create" -> CreateValid(r)
    [] r.op = "reschedule" -> RescheduleValid(r)
    [] OTHER -> TRUE

\* last is the response sent by the step just taken (NoResponse when the
\* step sent none): for a create answered 201, id is the id of the booking
\* it returned; code "rejected" is a handler whose promise rejected, which
\* sends nothing.
NoResponse ==
  [op |-> "none", id |-> NoId, serviceId |-> S(""), unitId |-> S(""),
   date |-> S(""), time |-> S(""), customerName |-> S(""), code |-> "none",
   rivalWon |-> FALSE]

Response(r, code) ==
  [op |-> r.op, id |-> r.id, serviceId |-> r.serviceId, unitId |-> r.unitId,
   date |-> r.date, time |-> r.time, customerName |-> r.customerName,
   code |-> code, rivalWon |-> r.rivalWon]

InFlight(p) == reqs[p].pc # "idle"

\* Every handler runs to its end before the next request is taken.
Quiet == \A q \in Procs : ~InFlight(q)

RECURSIVE SumHistory(_)
SumHistory(bookings) ==
  IF bookings = <<>> THEN 0
  ELSE Len(Head(bookings).history) + SumHistory(Tail(bookings))

\* The model's bounds, as guards on the requests it takes.
CanTake ==
  /\ SumHistory(file) + Cardinality({q \in Procs : InFlight(q)}) < MaxOps
  /\ SumHistory(tmp) < MaxOps
CanCreate == CanTake /\ nextId < MaxBookings

\* The collection readFileSafe returns: ensureFile has made a missing file
\* an empty array.
Stored == IF exists THEN file ELSE <<>>

\* ------------------------------------- a handler run from start to end
\* A writeFileSafe that writes bookings.json itself, with no temporary file:
\* a write that fails after the file was opened leaves it truncated.
writeFileInPlace(data, faulty) ==
  {[ok |-> TRUE, file |-> <<data>>, tmpExists |-> tmpExists, tmp |-> tmp]}
    \cup (IF faulty
          THEN {[ok |-> FALSE, file |-> <<>>, tmpExists |-> tmpExists,
                 tmp |-> tmp],
                [ok |-> FALSE, file |-> << <<>> >>, tmpExists |-> tmpExists,
                 tmp |-> tmp]}
          ELSE {})

\* writeFileSafe(filePath, data) run with no other writer: what it can leave
\* behind.  file is <<data>> when bookings.json has been replaced and <<>>
\* when it is as before.  With faulty set, fsp.writeFile may reject (the
\* temporary file untouched, or created and truncated) and so may
\* fsp.rename (the temporary file written and left in place).
writeFileSafe(data, faulty) ==
  {[ok |-> TRUE, file |-> <<data>>, tmpExists |-> FALSE, tmp |-> <<>>]}
    \cup (IF faulty
          THEN {[ok |-> FALSE, file |-> <<>>, tmpExists |-> tmpExists,
                 tmp |-> tmp],
                [ok |-> FALSE, file |-> <<>>, tmpExists |-> TRUE,
                 tmp |-> <<>>],
                [ok |-> FALSE, file |-> <<>>, tmpExists |-> TRUE,
                 tmp |-> data]}
          ELSE {})

\* The whole handler of request r, with no other request in flight: the
\* checks, ensureFile, the read, the body, and writeFileSafe.  A handler
\* has no catch: when the write rejects, so does the handler.
Handle(r, faulty) ==
  /\ Quiet
  /\ IF ~Valid(r)
     THEN /\ last' = Response(r, "400")
          /\ UNCHANGED <<exists, file, tmpExists, tmp, nextId>>
     ELSE LET res == Body(Stored, r, nextId + 1, clock, mock)
              done == IF r.op = "create" /\ res.code = "201"
                      THEN [r EXCEPT !.id = nextId + 1] ELSE r
          IN /\ exists' = TRUE
             /\ IF res.code \notin {"200", "201"}
                THEN /\ file' = Stored
                     /\ last' = Response(r, res.code)
                     /\ UNCHANGED <<tmpExists, tmp, nextId>>
                ELSE /\ nextId' = IF r.op = "create" THEN nextId + 1
                                  ELSE nextId
                     /\ \E w \in writeFileSafe(res.bookings, faulty) :
                          /\ file' = IF w.file = <<>> THEN Stored
                                     ELSE w.file[1]
                          /\ tmpExists' = w.tmpExists
                          /\ tmp' = w.tmp
                          /\ last' = Response(done, IF w.ok THEN res.code
                                                    ELSE "rejected")
  /\ UNCHANGED <<mock, clock, reqs>>
  /\ UNCHANGED <<side, io>>

\* POST /api/book
Create(faulty) ==
  CanCreate /\ \E body \in CreateBodies : Handle(CreateReq(body), faulty)

\* POST /api/book/:id/confirm
Confirm(faulty) ==
  CanTake /\ \E id \in ReqIds : Handle(ConfirmReq(id), faulty)

\* POST /api/book/:id/reschedule
Reschedule(faulty) ==
  CanTake /\ \E id \in ReqIds, body \in RescheduleBodies :
               Handle(RescheduleReq(id, body), faulty)

\* POST /api/book/:id/cancel
Cancel(faulty) ==
  CanTake /\ \E id \in ReqIds : Handle(CancelReq(id), faulty)

\* Time passes.
Tick ==
  /\ clock < MaxClock
  /\ clock' = clock + 1
  /\ last' = NoResponse
  /\ UNCHANGED <<mock, exists, file, tmpExists, tmp, nextId, reqs>>
  /\ UNCHANGED <<side, io>>

\* No call waiting to be made.
NoCall == [op |-> "none"]

\* The booking store when the process starts: bookings.json absent, or
\* present and empty.
\* No slot selected (selectedSlot = null).
NoSlot == [serviceName |-> "", time |-> "", price |-> Null]

\* The page once main.js has run: nothing selected, "No coupon" in the
\* dropdown, no request in flight, no booking sent.  appliedTo is the slot
\* and the code of the request that finalPrice came from.
FreshPage ==
  [selectedService |-> "", shown |-> "", selectedSlot |-> NoSlot,
   finalPrice |-> Null, appliedTo |-> <<>>, couponSelect |-> <<>>,
   checking |-> FALSE, validating |-> {}, creating |-> FALSE, sent |-> <<>>]

InitBookings ==
  /\ page = FreshPage
  /\ mock \in BOOLEAN
  /\ exists \in BOOLEAN
  /\ file = <<>>
  /\ tmpExists = FALSE
  /\ tmp = <<>>
  /\ clock = 0
  /\ nextId = 0
  /\ reqs = [p \in Procs |-> Idle]
  /\ last = NoResponse
  /\ fileState = "whole"
  /\ tmpState = "whole"
  /\ fd = [p \in Procs |-> "none"]

\* The booking routes alone: coupons.json is absent and stays so.
Init ==
  /\ InitBookings
  /\ couponsExists = FALSE
  /\ coupons = <<>>
  /\ call = NoCall

\* Requests served one at a time, on a file system that does what it is
\* asked.
Next ==
  \/ Create(FALSE)
  \/ Confirm(FALSE)
  \/ Reschedule(FALSE)
  \/ Cancel(FALSE)
  \/ Tick

Spec == Init /\ [][Next]_vars

\* Requests served one at a time, on a file system whose writes may fail,
\* all within one reading of the clock.
NextFail ==
  \/ Create(TRUE)
  \/ Confirm(TRUE)
  \/ Reschedule(TRUE)
  \/ Cancel(TRUE)

SpecFail == Init /\ [][NextFail]_vars

\* ------------------------------------------- a handler run step by step
\* Each handler is an async function: it gives way to other requests at
\* every await.  A step is one awaited file-system operation followed by
\* the synchronous code up to the next await.

\* res.status(code).json(...), or the handler's promise rejecting: the
\* request leaves its slot and its outcome is recorded.  A create answered
\* 201 is seen by every other create in flight on its slot.
Respond(p, r, code) ==
  /\ last' = Response(r, code)
  /\ reqs' = [q \in Procs |->
       IF q = p THEN Idle
       ELSE IF /\ code = "201" /\ r.op = "create"
               /\ InFlight(q) /\ reqs[q].op = "create"
               /\ String(reqs[q].unitId) = String(r.unitId)
               /\ String(reqs[q].date) = String(r.date)
               /\ String(reqs[q].time) = String(r.time)
            THEN [reqs[q] EXCEPT !.rivalWon = TRUE]
            ELSE reqs[q]]

\* The handler is entered: its synchronous checks, answered 400 when they
\* fail, and else readBookingsSafe() up to the outcome of ensureFile's
\* fsp.access(filePath), which changes nothing.
Arrive(p, r) ==
  /\ ~InFlight(p)
  /\ \A q \in 1..(p - 1) : InFlight(q)
  /\ IF ~Valid(r)
     THEN Respond(p, r, "400")
     ELSE /\ reqs' = [reqs EXCEPT ![p] =
               [r EXCEPT !.pc = IF exists THEN "read" ELSE "ensure"]]
          /\ last' = NoResponse
  /\ UNCHANGED <<mock, exists, file, tmpExists, tmp, clock, nextId>>
  /\ UNCHANGED <<side, io>>

ArriveCreate(p) ==
  CanCreate /\ \E body \in CreateBodies : Arrive(p, CreateReq(body))

ArriveConfirm(p) == CanTake /\ \E id \in ReqIds : Arrive(p, ConfirmReq(id))

ArriveReschedule(p) ==
  CanTake /\ \E id \in ReqIds, body \in RescheduleBodies :
               Arrive(p, RescheduleReq(id, body))

ArriveCancel(p) == CanTake /\ \E id \in ReqIds : Arrive(p, CancelReq(id))

\* ensureFile: fsp.writeFile(filePath, "[]") after access() has failed.  The
\* file is truncated and holds "[]", which a write still to come through a
\* descriptor that is open on it will cover.
EnsureWrite(p) ==
  /\ reqs[p].pc = "ensure"
  /\ exists' = TRUE
  /\ file' = <<>>
  /\ fileState' = IF \E q \in Procs : fd[q] = "file" THEN "empty"
                  ELSE "whole"
  /\ reqs' = [reqs EXCEPT ![p].pc = "read"]
  /\ last' = NoResponse
  /\ UNCHANGED <<mock, tmpExists, tmp, clock, nextId>>
  /\ UNCHANGED <<side, tmpState, fd>>

\* readFileSafe: fsp.readFile and JSON.parse, then the handler's body up to
\* its next await (writeBookingsSafe) or to its error response.  A file
\* that is empty reads as [] (raw.trim() is ""); on one that holds a mix of
\* two writes JSON.parse throws.
Read(p) ==
  /\ reqs[p].pc = "read"
  /\ LET r == reqs[p]
         res == Body(file, r, nextId + 1, clock, mock)
     IN IF fileState = "mixed"
        THEN /\ Respond(p, r, "rejected")
             /\ UNCHANGED nextId
        ELSE IF res.code \in {"200", "201"}
        THEN /\ reqs' = [reqs EXCEPT ![p] =
                  [r EXCEPT !.pc = "write", !.data = res.bookings,
                            !.code = res.code, !.id = res.out[1].id]]
             /\ nextId' = IF r.op = "create" THEN nextId + 1 ELSE nextId
             /\ last' = NoResponse
        ELSE /\ Respond(p, r, res.code)
             /\ UNCHANGED nextId
  /\ UNCHANGED <<mock, exists, file, tmpExists, tmp, clock>>
  /\ UNCHANGED <<side, io>>

\* writeFileSafe: fsp.writeFile(tmp, JSON.stringify(data)), its open and its
\* write with nothing in between.
WriteTmp(p) ==
  /\ reqs[p].pc = "write"
  /\ tmpExists' = TRUE
  /\ tmp' = reqs[p].data
  /\ tmpState' = "whole"
  /\ reqs' = [reqs EXCEPT ![p].pc = "rename"]
  /\ last' = NoResponse
  /\ UNCHANGED <<mock, exists, file, clock, nextId>>
  /\ UNCHANGED <<side, fileState, fd>>

\* What a file holds once a handler has written its data at the start of
\* it: the data, when the file was empty; the data or a mix, when another
\* write has come in since this handler truncated it.
Landing(state) == IF state = "empty" THEN {"whole"} ELSE {"whole", "mixed"}

\* fsp.writeFile(tmp, ...), first half: the file is opened with flag 'w',
\* which creates it or truncates it.
OpenTmp(p) ==
  /\ reqs[p].pc = "write"
  /\ tmpExists' = TRUE
  /\ tmp' = <<>>
  /\ tmpState' = "empty"
  /\ fd' = [fd EXCEPT ![p] = "tmp"]
  /\ reqs' = [reqs EXCEPT ![p].pc = "fill"]
  /\ last' = NoResponse
  /\ UNCHANGED <<mock, exists, file, fileState, clock, nextId>>
  /\ UNCHANGED side

\* fsp.writeFile(tmp, ...), second half: the data is written through the
\* descriptor, to the file it names by now (bookings.json when a rename has
\* moved the temporary file meanwhile, none when that file was replaced
\* in its turn), and the descriptor is closed.
FillTmp(p) ==
  /\ reqs[p].pc = "fill"
  /\ CASE fd[p] = "tmp" ->
            /\ \E st \in Landing(tmpState) :
                 /\ tmpState' = st
                 /\ tmp' = IF st = "whole" THEN reqs[p].data ELSE <<>>
            /\ UNCHANGED <<file, fileState>>
       [] fd[p] = "file" ->
            /\ \E st \in Landing(fileState) :
                 /\ fileState' = st
                 /\ file' = IF st = "whole" THEN reqs[p].data ELSE <<>>
            /\ UNCHANGED <<tmp, tmpState>>
       [] OTHER -> UNCHANGED <<file, fileState, tmp, tmpState>>
  /\ fd' = [fd EXCEPT ![p] = "none"]
  /\ reqs' = [reqs EXCEPT ![p].pc = "rename"]
  /\ last' = NoResponse
  /\ UNCHANGED <<mock, exists, tmpExists, clock, nextId>>
  /\ UNCHANGED side

\* writeFileSafe: fsp.rename(tmp, filePath), then res.json(...).  The rename
\* rejects with ENOENT when another writer has already moved the file.
Rename(p) ==
  /\ reqs[p].pc = "rename"
  /\ IF tmpExists
     THEN /\ exists' = TRUE
          /\ file' = tmp
          /\ fileState' = tmpState
          /\ tmpExists' = FALSE
          /\ tmp' = <<>>
          /\ tmpState' = "whole"
          /\ fd' = [q \in Procs |->
                     CASE fd[q] = "tmp" -> "file"
                       [] fd[q] = "file" -> "gone"
                       [] OTHER -> fd[q]]
          /\ Respond(p, reqs[p], reqs[p].code)
     ELSE /\ UNCHANGED <<exists, file, tmpExists, tmp, io>>
          /\ Respond(p, reqs[p], "rejected")
  /\ UNCHANGED <<mock, clock, nextId>>
  /\ UNCHANGED side

\* Requests overlap: express enters a handler whenever the others await.
\* Here every file-system operation succeeds, but for the rename of a
\* temporary file that is gone, and all requests fall within one reading of
\* the clock.
NextConc ==
  \/ \E p \in Procs : ArriveCreate(p)
  \/ \E p \in Procs : ArriveConfirm(p)
  \/ \E p \in Procs : ArriveReschedule(p)
  \/ \E p \in Procs : ArriveCancel(p)
  \/ \E p \in Procs : EnsureWrite(p)
  \/ \E p \in Procs : Read(p)
  \/ \E p \in Procs : WriteTmp(p)
  \/ \E p \in Procs : Rename(p)

SpecConc == Init /\ [][NextConc]_vars

\* The same, with the two halves of fsp.writeFile(tmp, ...) as two steps, for
\* cancels and for creates on one unit.
IOBodies == {GoodBody(S("1"), d, t) : d \in Dates, t \in Times}

\* The bound on the operations of a run, counted also in the arrays the
\* handlers in flight hold: one of them comes back when a truncated file is
\* written.
CanTakeIO ==
  \A q \in Procs :
    SumHistory(reqs[q].data) + Cardinality({r \in Procs : InFlight(r)})
      < MaxOps

ArriveCreateIO(p) ==
  /\ CanTakeIO
  /\ CanCreate
  /\ \E body \in IOBodies : Arrive(p, CreateReq(body))

ArriveCancelIO(p) == CanTakeIO /\ ArriveCancel(p)

NextIO ==
  \/ \E p \in Procs : ArriveCreateIO(p)
  \/ \E p \in Procs : ArriveCancelIO(p)
  \/ \E p \in Procs : EnsureWrite(p)
  \/ \E p \in Procs : Read(p)
  \/ \E p \in Procs : OpenTmp(p)
  \/ \E p \in Procs : FillTmp(p)
  \/ \E p \in Procs : Rename(p)

SpecIO == Init /\ [][NextIO]_vars

\* -------------------------------------------------------------- coupons
\* A coupon code is the sequence of its characters.
LowerCase ==
  <<"a", "b", "c", "d", "e", "f", "g", "h", "i", "j", "k", "l", "m",
    "n", "o", "p", "q", "r", "s", "t", "u", "v", "w", "x", "y", "z">>
UpperCase ==
  <<"A", "B", "C", "D", "E", "F", "G", "H", "I", "J", "K", "L", "M",
    "N", "O", "P", "Q", "R", "S", "T", "U", "V", "W", "X", "Y", "Z">>

\* The upper case of each lower-case letter; any other character has none.
UpperOf ==
  [c \in {LowerCase[i] : i \in DOMAIN LowerCase} |->
     UpperCase[CHOOSE i \in DOMAIN LowerCase : LowerCase[i] = c]]

toUpperChar(c) == IF c \in DOMAIN UpperOf THEN UpperOf[c] ELSE c

\* A toUpperCase that returns the string as it is.
toUpperCaseAsIs(str) == str

\* String.prototype.toUpperCase
toUpperCase(str) == [i \in DOMAIN str |-> toUpperChar(str[i])]

\* (v || d) for a number v: d when v is unset or 0.
OrDefault(v, d) == IF v[1] = "number" /\ v[2] # 0 THEN v[2] ELSE d

\* The ceiling used for a coupon whose maxUses is unset (or 0).
DefaultMaxUses == 999999

\* The codes of the default catalog.
BADMINTON20 == <<"B", "A", "D", "M", "I", "N", "T", "O", "N", "2", "0">>
BASKETBALL20 ==
  <<"B", "A", "S", "K", "E", "T", "B", "A", "L", "L", "2", "0">>
TENNIS20 == <<"T", "E", "N", "N", "I", "S", "2", "0">>
PICKLEBALL20 ==
  <<"P", "I", "C", "K", "L", "E", "B", "A", "L", "L", "2", "0">>
SOCCER20 == <<"S", "O", "C", "C", "E", "R", "2", "0">>

\* One coupon of the default catalog; id stands for the value of uuidv4().
SeedCoupon(id, code) ==
  [id |-> id, code |-> code, type |-> "percent", amount |-> 20,
   maxUses |-> Num(9999), used |-> Num(0)]

\* The catalog readCouponsSafe writes when coupons.json holds no coupon.
SeedCoupons ==
  <<SeedCoupon("uuid-1", BADMINTON20), SeedCoupon("uuid-2", BASKETBALL20),
    SeedCoupon("uuid-3", TENNIS20), SeedCoupon("uuid-4", PICKLEBALL20),
    SeedCoupon("uuid-5", SOCCER20)>>

\* A readCouponsSafe that seeds the default catalog whatever the file holds.
readCouponsSafeAlwaysSeeds == SeedCoupons

\* readCouponsSafe(): the catalog it returns, which is also what
\* coupons.json holds afterwards (ensureFile, the read, and the seeding of an
\* empty catalog through writeFileSafe).
readCouponsSafe ==
  IF couponsExists /\ coupons # <<>> THEN coupons ELSE SeedCoupons

\* coupons.find(c => c.code === key): the first coupon with the code, as a
\* sequence of none or one.
find(catalog, key) ==
  IF \E i \in DOMAIN catalog : catalog[i].code = key
  THEN <<catalog[CHOOSE i \in DOMAIN catalog :
                   /\ catalog[i].code = key
                   /\ \A j \in 1..(i - 1) : catalog[j].code # key]>>
  ELSE <<>>

\* Math.round(x), x being num / den with den > 0: the integer nearest to x,
\* a half going up (towards plus infinity).
MathRound(num, den) == (2 * num + den) \div (2 * den)

\* Lines 293-299: the price in cents after the discount.  The price comes
\* in thousandths, the amount in currency units; the intermediate value is
\* kept exact, in hundred-thousandths.
Discounted(coupon, price) ==
  LET f == IF coupon.type = "percent"
           THEN price * 100 - price * coupon.amount
           ELSE IF coupon.type = "fixed"
           THEN IF price - coupon.amount * 1000 > 0
                THEN (price - coupon.amount * 1000) * 100 ELSE 0
           ELSE price * 100
  IN MathRound(f, 1000)

\* What POST /api/coupons/validate answers to (code, originalPrice) in the
\* current state: 400 before the catalog is read when code is empty or
\* originalPrice is null; else 404, 400 or 200 on the catalog read.
validateReply(input, originalPrice) ==
  LET found == find(readCouponsSafe, toUpperCase(input))
      answer(code, error, finalPrice, coupon) ==
        [op |-> "validateCoupon", input |-> input,
         originalPrice |-> originalPrice, code |-> code, error |-> error,
         finalPrice |-> finalPrice, coupon |-> coupon]
  IN IF input = <<>> \/ originalPrice = Null
     THEN answer("400", "code and originalPrice required", <<>>, <<>>)
     ELSE IF found = <<>>
     THEN answer("404", "Invalid coupon", <<>>, <<>>)
     ELSE IF OrDefault(found[1].used, 0)
               >= OrDefault(found[1].maxUses, DefaultMaxUses)
     THEN answer("400", "Coupon max uses reached", <<>>, <<>>)
     ELSE answer("200", "", <<Discounted(found[1], originalPrice[2])>>,
                 <<[code |-> found[1].code, type |-> found[1].type,
                    amount |-> found[1].amount]>>)

\* The booking store and the requests on it, which the coupon routes and a
\* call of hasConflict leave alone.
bookingVars ==
  <<mock, exists, file, tmpExists, tmp, clock, nextId, reqs, io, page>>

\* POST /api/coupons/validate, from start to end.
validateCoupon(input, originalPrice) ==
  /\ Quiet
  /\ last' = validateReply(input, originalPrice)
  /\ IF input = <<>> \/ originalPrice = Null
     THEN UNCHANGED <<couponsExists, coupons>>
     ELSE couponsExists' = TRUE /\ coupons' = readCouponsSafe
  /\ UNCHANGED bookingVars

\* GET /api/coupons, from start to end.
listCoupons ==
  /\ Quiet
  /\ last' = [op |-> "listCoupons", code |-> "200",
              coupons |-> readCouponsSafe]
  /\ couponsExists' = TRUE
  /\ coupons' = readCouponsSafe
  /\ UNCHANGED bookingVars

\* The catalogs coupons.json may hold when the process starts: up to
\* MaxCoupons coupons, each with a code in upper or in lower case, a type
\* and amount, and a usage ceiling and count.
MaxCoupons == 2
SAVE == <<"S", "A", "V", "E">>
CatalogCodes == {SAVE, <<"s", "a", "v", "e">>}
Offers ==
  {[type |-> "percent", amount |-> 20], [type |-> "percent", amount |-> 150],
   [type |-> "fixed", amount |-> 20], [type |-> "bogus", amount |-> 20]}
Gates ==
  {[maxUses |-> Undefined, used |-> Undefined],
   [maxUses |-> Num(2), used |-> Num(2)],
   [maxUses |-> Num(0), used |-> Num(0)]}
Catalogs(max) ==
  UNION {{[i \in 1..n |->
             [id |-> "file-" \o ToString(i), code |-> ks[i][1],
              type |-> ks[i][2].type, amount |-> ks[i][2].amount,
              maxUses |-> ks[i][3].maxUses, used |-> ks[i][3].used]] :
            ks \in [1..n -> CatalogCodes \X Offers \X Gates]} :
         n \in 0..max}

\* The requests made of the coupon routes: codes in the catalog's spelling
\* and in others, a code in no catalog, an empty code; prices with and
\* without a fraction of a cent, and none.
InputCodes ==
  {SAVE, <<"s", "a", "v", "e">>, <<"S", "a", "v", "e">>, <<"N", "O">>, <<>>,
   BADMINTON20,
   <<"b", "a", "d", "m", "i", "n", "t", "o", "n", "2", "0">>, TENNIS20}
InputPrices == {Null, Num(250000), Num(99990), Num(250), Num(125)}
CouponCalls ==
  {[op |-> "validateCoupon", input |-> c, originalPrice |-> q] :
     c \in InputCodes, q \in InputPrices}
    \cup {[op |-> "listCoupons"]}

\* The call drawn is POST /api/coupons/validate.
ServeValidate ==
  /\ call.op = "validateCoupon"
  /\ validateCoupon(call.input, call.originalPrice)
  /\ call' = NoCall

\* The call drawn is GET /api/coupons.
ServeList ==
  /\ call.op = "listCoupons"
  /\ listCoupons
  /\ call' = NoCall

\* One request of a coupon route, on any catalog.
InitCoupons ==
  /\ InitBookings
  /\ ~mock
  /\ ~exists
  /\ couponsExists \in BOOLEAN
  /\ coupons \in (IF couponsExists THEN Catalogs(MaxCoupons) ELSE {<<>>})
  /\ call \in CouponCalls

NextCoupons ==
  \/ ServeValidate
  \/ ServeList

SpecCoupons == InitCoupons /\ [][NextCoupons]_vars

\* ------------------------------------------------- hasConflict, called
\* The fields of a booking that hasConflict reads.  A unitId is stored as
\* the request gave it, a string or a number.
SlotUnits == {S("1"), N("1"), S("2")}
SlotDates == {S("2025-01-01"), S("2025-01-02")}
SlotShapes ==
  {[id |-> NoId, unitId |-> u, date |-> d, time |-> t, status |-> st] :
     u \in SlotUnits, d \in SlotDates, t \in Times,
     st \in {"pending", "cancelled"}}

\* The collections of up to MaxBookings bookings; the i-th has id i.
Collections(max) ==
  UNION {{[i \in 1..n |-> [m[i] EXCEPT !.id = i]] : m \in [1..n -> SlotShapes]} :
           n \in 0..max}

\* The calls of hasConflict, for unit 1 given as a number: excludeId is
\* absent (null), empty, the id of a booking or an id no booking has.
ConflictCalls(max) ==
  {[op |-> "hasConflict", bookings |-> bs, unitId |-> N("1"),
    date |-> S("2025-01-01"), time |-> S("09:00"), excludeId |-> x] :
     bs \in Collections(max),
     x \in {NoId, EmptyId} \cup (1..(max + 1))}

\* The call drawn is made: last holds its arguments, what it returned and the
\* array as the call left it (the callback of some() assigns nothing).
CallHasConflict ==
  /\ call.op = "hasConflict"
  /\ last' = [op |-> "hasConflict", bookings |-> call.bookings,
              unitId |-> call.unitId, date |-> call.date, time |-> call.time,
              excludeId |-> call.excludeId, after |-> call.bookings,
              result |-> hasConflict(call.bookings, call.unitId, call.date,
                                     call.time, call.excludeId)]
  /\ call' = NoCall
  /\ UNCHANGED <<bookingVars, couponsExists, coupons>>

InitConflict ==
  /\ InitBookings
  /\ ~mock
  /\ ~exists
  /\ couponsExists = FALSE
  /\ coupons = <<>>
  /\ call \in ConflictCalls(MaxBookings)

NextConflict == CallHasConflict

SpecConflict == InitConflict /\ [][NextConflict]_vars

\* ----------------------------------------------------------- all routes
\* A catalog with a coupon that validates and one that is used up.
RouteCatalog ==
  <<[id |-> "file-1", code |-> SAVE, type |-> "fixed", amount |-> 20,
     maxUses |-> Undefined, used |-> Undefined],
    [id |-> "file-2", code |-> <<"O", "L", "D">>, type |-> "percent",
     amount |-> 20, maxUses |-> Num(2), used |-> Num(2)]>>
RouteCodes == {SAVE, <<"O", "L", "D">>, BADMINTON20}
RoutePrices == {Num(250000)}

\* POST /api/coupons/validate, whenever no other request is being served.
ValidateCoupon ==
  /\ \E c \in RouteCodes, q \in RoutePrices : validateCoupon(c, q)
  /\ UNCHANGED call

\* GET /api/coupons, whenever no other request is being served.
ListCoupons == listCoupons /\ UNCHANGED call

InitRoutes ==
  /\ InitBookings
  /\ ~mock
  /\ couponsExists \in BOOLEAN
  /\ coupons \in (IF couponsExists THEN {<<>>, RouteCatalog} ELSE {<<>>})
  /\ call = NoCall

\* Requests of the booking routes and of the coupon routes in any order,
\* served one at a time, on a file system that does what it is asked.
NextRoutes ==
  \/ Create(FALSE)
  \/ Confirm(FALSE)
  \/ Reschedule(FALSE)
  \/ Cancel(FALSE)
  \/ ValidateCoupon
  \/ ListCoupons

SpecRoutes == InitRoutes /\ [][NextRoutes]_vars

\* ------------------------------------------------------------ analytics
\* bookings.reduce((sum, b) => sum + (b.price != null ? Number(b.price) : 0),
\* sum), from the left.
RECURSIVE reduce(_, _)
reduce(bookings, sum) ==
  IF bookings = <<>> THEN sum
  ELSE reduce(Tail(bookings),
              sum + (IF Head(bookings).price # Null
                     THEN Number(Head(bookings).price)[2] ELSE 0))

\* The metrics with 'confirmed_mock' counted as confirmed.
metricsCountingMock(bookings) ==
  [totalBookings |-> Len(bookings),
   confirmed |-> Cardinality({i \in DOMAIN bookings :
                   bookings[i].status \in {"confirmed", "confirmed_mock"}}),
   cancelled |-> Cardinality({i \in DOMAIN bookings :
                   bookings[i].status = "cancelled"}),
   revenue |-> reduce(bookings, 0)]

\* GET /api/admin/analytics: the metrics of the array read.
metrics(bookings) ==
  [totalBookings |-> Len(bookings),
   confirmed |-> Cardinality({i \in DOMAIN bookings :
                   bookings[i].status = "confirmed"}),
   cancelled |-> Cardinality({i \in DOMAIN bookings :
                   bookings[i].status = "cancelled"}),
   revenue |-> reduce(bookings, 0)]

\* GET /api/admin/analytics, from start to end.
Analytics ==
  /\ Quiet
  /\ last' = [op |-> "analytics", code |-> "200", metrics |-> metrics(Stored)]
  /\ exists' = TRUE
  /\ file' = Stored
  /\ UNCHANGED <<mock, tmpExists, tmp, clock, nextId, reqs>>
  /\ UNCHANGED <<side, io>>

\* GET /api/bookings, from start to end.
ListBookings ==
  /\ Quiet
  /\ last' = [op |-> "list", code |-> "200", bookings |-> Stored]
  /\ exists' = TRUE
  /\ file' = Stored
  /\ UNCHANGED <<mock, tmpExists, tmp, clock, nextId, reqs>>
  /\ UNCHANGED <<side, io>>

\* Bodies of POST /api/book with a price: none, null, a number, a string
\* that reads as a number, and one that does not.
BodyPrices ==
  {Undefined, Null, Num(1050), <<"numeral", 2000>>, <<"text", 0>>}
PricedBodies ==
  {[GoodBody(u, S("2025-01-01"), S("09:00")) EXCEPT !.price = q] :
     u \in UnitIds, q \in BodyPrices}

\* POST /api/book with a price.
CreatePriced ==
  CanCreate /\ \E body \in PricedBodies : Handle(CreateReq(body), FALSE)

\* Bookings with prices are made, confirmed and cancelled, and the store is
\* listed and summed up, one request at a time.
NextAnalytics ==
  \/ CreatePriced
  \/ Confirm(FALSE)
  \/ Cancel(FALSE)
  \/ Analytics
  \/ ListBookings

SpecAnalytics == Init /\ [][NextAnalytics]_vars

\* --------------------------------------------------------------- the page
\* What a step of the page leaves alone: the server.
server == <<mock, exists, file, tmpExists, tmp, clock, nextId, reqs, last,
            couponsExists, coupons, call, fileState, tmpState, fd>>

\* The demo services loadServices() falls back to (GET /api/services always
\* answers 500), with their prices in thousandths.
Services ==
  {[name |-> "Badminton Court", price |-> Num(250000)],
   [name |-> "Tennis Court", price |-> Num(400000)]}

\* Start times of mockAvailability.
SlotTimes == {"09:00", "11:00"}

\* The slot buttons renderAvailability() makes for a service.
Slots(serviceName) ==
  {[serviceName |-> s.name, time |-> t, price |-> s.price] :
     s \in {x \in Services : x.name = serviceName}, t \in SlotTimes}

\* The options of the coupon dropdown besides "No coupon".
Options == {BADMINTON20, SAVE}

\* fallbackCodes
fallbackCodes ==
  {BADMINTON20, BASKETBALL20, TENNIS20, PICKLEBALL20, SOCCER20}

\* The catalog the server answers a validation from.
PageCatalog == SeedCoupons \o RouteCatalog

\* selectService(s, elem)
selectService(s) ==
  page' = [page EXCEPT !.selectedService = s.name, !.shown = "",
                       !.selectedSlot = NoSlot, !.finalPrice = Null,
                       !.appliedTo = <<>>]

\* A click on a service.
SelectService ==
  /\ \E s \in Services : selectService(s)
  /\ UNCHANGED server

\* checkBtn click, with both dates filled in, up to its fetch.
CheckClick ==
  /\ ~page.checking
  /\ page.selectedService # ""
  /\ page' = [page EXCEPT !.shown = "", !.selectedSlot = NoSlot,
                          !.finalPrice = Null, !.appliedTo = <<>>,
                          !.checking = TRUE]
  /\ UNCHANGED server

\* checkBtn click, after its fetch: the availability route is not there, so
\* renderAvailability(mockAvailability(selectedService, ...)).
CheckDone ==
  /\ page.checking
  /\ page' = [page EXCEPT !.shown = page.selectedService,
                          !.checking = FALSE]
  /\ UNCHANGED server

\* selectSlot(slotObj, btn), from a slot button that is displayed.
selectSlot(slotObj) ==
  page' = [page EXCEPT !.selectedSlot = slotObj, !.finalPrice = Null,
                       !.appliedTo = <<>>]

\* A click on a slot button.
SelectSlot ==
  /\ \E slotObj \in Slots(page.shown) : selectSlot(slotObj)
  /\ UNCHANGED server

\* The user picks an option of the coupon dropdown.
ChangeCoupon ==
  /\ \E c \in Options \cup {<<>>} :
       /\ c # page.couponSelect
       /\ page' = [page EXCEPT !.couponSelect = c]
  /\ UNCHANGED server

\* applyCouponBtn.onclick up to its fetch: nothing is sent with "No coupon"
\* or with no slot (or no price).
ApplyClick ==
  /\ Cardinality(page.validating) < MaxValidating
  /\ IF page.couponSelect = <<>> \/ page.selectedSlot = NoSlot
        \/ page.selectedSlot.price = Null
     THEN UNCHANGED page
     ELSE page' = [page EXCEPT !.validating =
                     @ \cup {[code |-> page.couponSelect,
                              originalPrice |-> page.selectedSlot.price,
                              slot |-> page.selectedSlot]}]
  /\ UNCHANGED server

\* Math.round(priceNum * 0.8 * 100) / 100, in cents.
FallbackPrice(price) == Num(MathRound(price[2] * 8, 100))

\* applyCouponBtn.onclick after its fetch, for a request v in flight: the
\* server answered with success and a finalPrice, answered with no success,
\* or the fetch failed.
ApplyDone ==
  /\ \E v \in page.validating, outcome \in {"success", "refused", "failed"} :
       LET found == find(PageCatalog, toUpperCase(v.code))
           fallback == toUpperCase(v.code) \in fallbackCodes
           left == [page EXCEPT !.validating = @ \ {v}]
           from == <<[slot |-> v.slot, code |-> v.code]>>
       IN /\ outcome = "success" => found # <<>>
          /\ page' =
               IF outcome = "success"
               THEN [left EXCEPT
                       !.finalPrice =
                          Num(Discounted(found[1], v.originalPrice[2])),
                       !.appliedTo = from]
               ELSE IF fallback
               THEN [left EXCEPT
                       !.finalPrice = FallbackPrice(v.originalPrice),
                       !.appliedTo = from]
               ELSE [left EXCEPT !.finalPrice = Null, !.appliedTo = <<>>]
  /\ UNCHANGED server

\* confirmBtn.onclick up to its fetch, with a name typed in: the payload of
\* POST /api/book, its price in cents.
ConfirmClick ==
  /\ ~page.creating
  /\ IF page.selectedSlot = NoSlot
     THEN UNCHANGED page
     ELSE LET basePrice ==
                IF page.finalPrice # Null THEN page.finalPrice
                ELSE IF page.selectedSlot.price # Null
                THEN Num(page.selectedSlot.price[2] \div 10)
                ELSE Null
              payload ==
                [serviceName |-> page.selectedSlot.serviceName,
                 time |-> page.selectedSlot.time,
                 price |-> basePrice,
                 couponCode |-> IF page.couponSelect # <<>>
                                THEN toUpperCase(page.couponSelect)
                                ELSE Null]
          IN page' = [page EXCEPT !.creating = TRUE, !.sent = <<payload>>]
  /\ UNCHANGED server

\* confirmBtn.onclick after its fetches: a booking error leaves the page as
\* it is, a booking created resets it.
ConfirmDone ==
  /\ page.creating
  /\ \E ok \in BOOLEAN :
       page' = IF ok
               THEN [page EXCEPT !.creating = FALSE, !.shown = "",
                                 !.selectedSlot = NoSlot,
                                 !.finalPrice = Null, !.appliedTo = <<>>,
                                 !.couponSelect = <<>>]
               ELSE [page EXCEPT !.creating = FALSE]
  /\ UNCHANGED server

NextPage ==
  \/ SelectService
  \/ CheckClick
  \/ CheckDone
  \/ SelectSlot
  \/ ChangeCoupon
  \/ ApplyClick
  \/ ApplyDone
  \/ ConfirmClick
  \/ ConfirmDone

\* The page alone, before a server that is left as it started.
InitPage ==
  /\ Init
  /\ ~mock
  /\ ~exists

SpecPage == InitPage /\ [][NextPage]_vars

\* =============================================================== claims
Active(b) == b.status # "cancelled"

\* Two bookings (or a booking and a request) on one (unitId, date, time).
SameSlot(a, b) ==
  /\ String(a.unitId) = String(b.unitId)
  /\ String(a.date) = String(b.date)
  /\ String(a.time) = String(b.time)

Known(bookings, id) == \E i \in DOMAIN bookings : bookings[i].id = id

Lookup(bookings, id) ==
  bookings[CHOOSE i \in DOMAIN bookings : bookings[i].id = id]

IsPrefix(h, k) == Len(h) <= Len(k) /\ SubSeq(k, 1, Len(h)) = h

ErrorCodes == {"400", "404", "409", "rejected"}

NoTwoActiveOnOneSlot(bookings) ==
  \A i, j \in DOMAIN bookings :
    (i # j /\ Active(bookings[i]) /\ Active(bookings[j]))
      => ~SameSlot(bookings[i], bookings[j])

\* C1: with requests served one at a time, the stored collection never holds
\* two distinct bookings that are both not cancelled and have the same
\* (unitId, date, time).
C1_NoDoubleBooking == NoTwoActiveOnOneSlot(Stored)

\* A reschedule has just been refused with 409 while two bookings are active.
C1_Witness ==
  /\ last.op = "reschedule" /\ last.code = "409"
  /\ \E i, j \in DOMAIN Stored :
       i # j /\ Active(Stored[i]) /\ Active(Stored[j])

\* C2: of the creates in flight at once on one slot at most one is answered
\* 201 (a create is never answered 201 after a create on its slot was
\* answered 201 while it was in flight), and the store never holds two
\* non-cancelled bookings on one slot.
C2_AtMostOneCreateWins ==
  /\ ~(last.op = "create" /\ last.code = "201" /\ last.rivalWon)
  /\ NoTwoActiveOnOneSlot(Stored)

AllowedMove(s, t) ==
  \/ s = t
  \/ s = "pending" /\ t \in {"confirmed", "confirmed_mock", "cancelled"}
  \/ s \in {"confirmed", "confirmed_mock"} /\ t = "cancelled"

\* C3: in every step, the status of every stored booking stays the same or
\* moves pending -> confirmed/confirmed_mock/cancelled or
\* confirmed/confirmed_mock -> cancelled; so cancelled stays cancelled, and
\* a reschedule changes no status.
C3_StatusMovesForward ==
  [][\A i \in DOMAIN Stored : \A j \in DOMAIN Stored' :
       Stored[i].id = Stored'[j].id
         => AllowedMove(Stored[i].status, Stored'[j].status)]_vars

\* C4: in every step every stored booking keeps its history as a prefix of
\* its new history; a step that answers 200 or 201 leaves the target's
\* history exactly one entry longer than it was in the store, and a step
\* that answers with an error leaves every history as it was.
C4_HistoryAppendOnly ==
  [][/\ \A i \in DOMAIN Stored :
          /\ Known(Stored', Stored[i].id)
          /\ IsPrefix(Stored[i].history,
                      Lookup(Stored', Stored[i].id).history)
     /\ last'.code \in {"200", "201"} =>
          /\ Known(Stored', last'.id)
          /\ Len(Lookup(Stored', last'.id).history)
               = IF Known(Stored, last'.id)
                 THEN Len(Lookup(Stored, last'.id).history) + 1
                 ELSE 1
     /\ last'.code \in ErrorCodes => Stored' = Stored]_vars

\* C5: a request that ends in an error (400, 404, 409, or a rejected write)
\* leaves the persisted collection as it was when the request started.
C5_NoPartialMutation ==
  [][last'.code \in ErrorCodes => Stored' = Stored]_vars

\* A write has just been rejected, with bookings in the store and the
\* temporary file left behind.
C5_Witness == last.code = "rejected" /\ Stored # <<>> /\ tmpExists

\* C6: confirm answers 404 for an id that is not in the store and 400 for
\* a cancelled booking, and the store is then unchanged; for any other
\* status it answers 200 and the booking's status is the confirmed label.
C6_ConfirmOutcome ==
  [][last'.op = "confirm" =>
       IF ~Known(Stored, last'.id)
       THEN last'.code = "404" /\ Stored' = Stored
       ELSE IF Lookup(Stored, last'.id).status = "cancelled"
       THEN last'.code = "400" /\ Stored' = Stored
       ELSE /\ last'.code = "200"
            /\ Known(Stored', last'.id)
            /\ Lookup(Stored', last'.id).status
                 = IF mock THEN "confirmed_mock" ELSE "confirmed"]_vars

\* A confirm of a cancelled booking has just been answered 400.
C6_Witness ==
  /\ last.op = "confirm" /\ last.code = "400"
  /\ Known(Stored, last.id)
  /\ Lookup(Stored, last.id).status = "cancelled"

\* C7: cancel of a booking in the store answers 200 whatever its status
\* (cancelled included), leaves it cancelled with its date and time, and
\* appends one history entry, action "cancelled", actor "user".
C7_CancelIdempotent ==
  [][(last'.op = "cancel" /\ Known(Stored, last'.id)) =>
       /\ last'.code = "200"
       /\ Known(Stored', last'.id)
       /\ LET b == Lookup(Stored, last'.id)
              c == Lookup(Stored', last'.id)
          IN /\ c.status = "cancelled"
             /\ c.date = b.date /\ c.time = b.time
             /\ Len(c.history) = Len(b.history) + 1
             /\ IsPrefix(b.history, c.history)
             /\ c.history[Len(c.history)].action = "cancelled"
             /\ c.history[Len(c.history)].actor = "user"]_vars

\* A booking has just been cancelled for the second time.
C7_Witness ==
  /\ last.op = "cancel" /\ last.code = "200"
  /\ Known(Stored, last.id)
  /\ LET h == Lookup(Stored, last.id).history
     IN Cardinality({k \in DOMAIN h : h[k].action = "cancelled"}) >= 2

HasAllFields(r) ==
  /\ r.serviceId # S("") /\ r.unitId # S("") /\ r.date # S("")
  /\ r.time # S("") /\ r.customerName # S("")

\* C8: a create with all required fields, on a slot that holds cancelled
\* bookings and no booking that is not cancelled, answers 201 and its
\* booking is in the store.
C8_CancelledNeverBlocks ==
  [][(/\ last'.op = "create" /\ HasAllFields(last')
      /\ \E i \in DOMAIN Stored :
           ~Active(Stored[i]) /\ SameSlot(Stored[i], last')
      /\ ~\E i \in DOMAIN Stored :
           Active(Stored[i]) /\ SameSlot(Stored[i], last'))
       => /\ last'.code = "201"
          /\ Known(Stored', last'.id)
          /\ SameSlot(Lookup(Stored', last'.id), last')]_vars

\* A create has just been answered 201 on a slot that holds a cancelled
\* booking.
C8_Witness ==
  /\ last.op = "create" /\ last.code = "201"
  /\ \E i \in DOMAIN Stored :
       ~Active(Stored[i]) /\ SameSlot(Stored[i], last)

\* C9: a reschedule of a non-cancelled booking to its own date and time
\* answers 200; and a reschedule answers 409 only when another booking (a
\* different id) that is not cancelled is on the same unit at the target
\* date and time.
C9_RescheduleExcludesItself ==
  [][(/\ last'.op = "reschedule" /\ Known(Stored, last'.id)
      /\ last'.date # S("") /\ last'.time # S(""))
       => LET b == Lookup(Stored, last'.id) IN
            /\ (Active(b) /\ b.date = last'.date /\ b.time = last'.time)
                 => last'.code = "200"
            /\ last'.code = "409" =>
                 \E i \in DOMAIN Stored :
                   /\ Stored[i].id # b.id /\ Active(Stored[i])
                   /\ String(Stored[i].unitId) = String(b.unitId)
                   /\ String(Stored[i].date) = String(last'.date)
                   /\ String(Stored[i].time) = String(last'.time)]_vars

\* A non-cancelled booking has just been rescheduled to the slot it had.
C9_Witness ==
  /\ last.op = "reschedule" /\ last.code = "200"
  /\ Known(Stored, last.id)
  /\ LET b == Lookup(Stored, last.id)
         e == b.history[Len(b.history)]
     IN /\ Active(b)
        /\ e.action = "rescheduled"
        /\ e.note[2] = e.note[5] /\ e.note[3] = e.note[6]

\* C10: a reschedule to a slot that no other non-cancelled booking holds
\* answers 200 for a booking that is not cancelled, and no reschedule
\* changes the date or time of a cancelled booking.
C10_RescheduleOnlyNonCancelled ==
  [][last'.op = "reschedule" =>
       /\ \A i \in DOMAIN Stored :
            ~Active(Stored[i]) =>
              /\ Known(Stored', Stored[i].id)
              /\ Lookup(Stored', Stored[i].id).date = Stored[i].date
              /\ Lookup(Stored', Stored[i].id).time = Stored[i].time
       /\ (/\ Known(Stored, last'.id)
           /\ last'.date # S("") /\ last'.time # S("")
           /\ Active(Lookup(Stored, last'.id))
           /\ ~\E i \in DOMAIN Stored :
                /\ Stored[i].id # last'.id /\ Active(Stored[i])
                /\ String(Stored[i].unitId)
                     = String(Lookup(Stored, last'.id).unitId)
                /\ String(Stored[i].date) = String(last'.date)
                /\ String(Stored[i].time) = String(last'.time))
            => last'.code = "200"]_vars

\* C11: a create with all required fields on a slot that no non-cancelled
\* booking holds answers 201 and the stored collection is the old one with
\* one booking appended: its id is in no stored booking, its status is
\* 'confirmed_mock' with the demo flag and 'pending' without, and its
\* history is one entry, action 'created', actor 'system'.
C11_CreateAppendsOne ==
  [][(/\ last'.op = "create" /\ HasAllFields(last')
      /\ ~\E i \in DOMAIN Stored :
           Active(Stored[i]) /\ SameSlot(Stored[i], last'))
       => /\ last'.code = "201"
          /\ Len(Stored') = Len(Stored) + 1
          /\ SubSeq(Stored', 1, Len(Stored)) = Stored
          /\ LET b == Stored'[Len(Stored')] IN
               /\ b.id = last'.id
               /\ ~Known(Stored, b.id)
               /\ SameSlot(b, last')
               /\ b.serviceId = last'.serviceId
               /\ b.customerName = last'.customerName
               /\ b.status = IF mock THEN "confirmed_mock" ELSE "pending"
               /\ Len(b.history) = 1
               /\ b.history[1].action = "created"
               /\ b.history[1].actor = "system"]_vars

\* A create has just been answered 201 with a booking already in the store
\* that is not the last one.
C11_Witness ==
  /\ last.op = "create" /\ last.code = "201"
  /\ Len(Stored) >= 2
  /\ Stored[Len(Stored)].id = last.id

\* The spellings of one code: equal in length and, place by place, the same
\* character or the two cases of one letter.
CaseTwins(a, b) ==
  /\ Len(a) = Len(b)
  /\ \A i \in DOMAIN a :
       \/ a[i] = b[i]
       \/ \E k \in DOMAIN LowerCase :
            \/ a[i] = LowerCase[k] /\ b[i] = UpperCase[k]
            \/ a[i] = UpperCase[k] /\ b[i] = LowerCase[k]

\* A validate request with a code and a price has just been answered.
Validated ==
  /\ last.op = "validateCoupon"
  /\ last.input # <<>> /\ last.originalPrice # Null

\* The first coupon of the catalog whose code is a spelling of the code
\* asked for and is stored in upper case (none: <<>>).
Matching(catalog, input) ==
  LET hits == {i \in DOMAIN catalog :
                 /\ CaseTwins(catalog[i].code, input)
                 /\ \A k \in DOMAIN LowerCase :
                      \A j \in DOMAIN catalog[i].code :
                        catalog[i].code[j] # LowerCase[k]}
  IN IF hits = {} THEN <<>>
     ELSE <<catalog[CHOOSE i \in hits : \A j \in hits : i <= j]>>

\* C12: a validate request whose code matches no entry of the catalog is
\* answered 404 (NotFoundError), and one whose coupon has a maxUses that is
\* set (0 included) and used >= maxUses is answered 400 'Coupon max uses
\* reached' (ExhaustedError); neither answer carries a finalPrice.
C12_ValidationGate ==
  Validated =>
    LET m == Matching(coupons, last.input) IN
      /\ m = <<>> => last.code = "404" /\ last.finalPrice = <<>>
      /\ (/\ m # <<>>
          /\ m[1].maxUses[1] = "number"
          /\ (IF m[1].used[1] = "number" THEN m[1].used[2] ELSE 0)
               >= m[1].maxUses[2])
           => /\ last.code = "400"
              /\ last.error = "Coupon max uses reached"
              /\ last.finalPrice = <<>>

\* x = num / den (den > 0) rounded to the nearest integer, a half going
\* away from zero.
RoundHalfAway(num, den) ==
  IF num >= 0 THEN (2 * num + den) \div (2 * den)
  ELSE -((2 * (-num) + den) \div (2 * den))

\* The reference policy, in cents, for a price in thousandths: percent,
\* fixed (never below 0), any other type the price itself; then rounded.
PolicyPrice(type, amount, price) ==
  LET f == CASE type = "percent" -> price * 100 - price * amount
             [] type = "fixed" ->
                  IF price * 100 - amount * 100000 > 0
                  THEN price * 100 - amount * 100000 ELSE 0
             [] OTHER -> price * 100
  IN RoundHalfAway(f, 1000)

\* C13: a validate request answered 200 carries the finalPrice of the
\* reference policy for the coupon it echoes, rounded to cents with a half
\* going away from zero; BADMINTON20 on 250 gives 200.00 and TENNIS20 on
\* 99.99 gives 79.99.
C13_FinalPriceIsPolicy ==
  (Validated /\ last.code = "200") =>
    /\ last.finalPrice
         = <<PolicyPrice(last.coupon[1].type, last.coupon[1].amount,
                         last.originalPrice[2])>>
    /\ (last.coupon[1].code = BADMINTON20 /\ last.originalPrice = Num(250000))
         => last.finalPrice = <<20000>>
    /\ (last.coupon[1].code = TENNIS20 /\ last.originalPrice = Num(99990))
         => last.finalPrice = <<7999>>

\* C14: whatever the catalog, a validate request is answered as the same
\* request would be with any other spelling of its code (same status and
\* error, same finalPrice, same coupon echoed), and leaves the same catalog.
C14_LookupIgnoresCase ==
  [][last'.op = "validateCoupon" =>
       \A other \in InputCodes :
         CaseTwins(other, last'.input) =>
           LET twin == validateReply(other, last'.originalPrice) IN
             /\ twin.code = last'.code
             /\ twin.error = last'.error
             /\ twin.finalPrice = last'.finalPrice
             /\ twin.coupon = last'.coupon]_vars

\* A code spelled in lower case has just been answered 200 with a coupon
\* stored in upper case.
C14_Witness ==
  /\ Validated /\ last.code = "200"
  /\ last.input # last.coupon[1].code
  /\ CaseTwins(last.input, last.coupon[1].code)

\* C16: the coupon echoed by a validate request has the fields code, type
\* and amount and no other, and no record returned by the list route has
\* an id, maxUses or used field.
C16_PublicFieldsOnly ==
  /\ (Validated /\ last.code = "200")
       => DOMAIN last.coupon[1] = {"code", "type", "amount"}
  /\ last.op = "listCoupons" =>
       \A i \in DOMAIN last.coupons :
         DOMAIN last.coupons[i] \cap {"id", "maxUses", "used"} = {}

\* C15: no request of a coupon route or of a booking route changes a coupon
\* of the catalog (code, type, amount, maxUses, used, or its place), and a
\* validate request that would be answered 200 before a step would get the
\* same answer after it.  A step either leaves coupons.json as it is (and
\* with it every answer of validate, which reads nothing else) or is held
\* to both.
C15_ValidateReadsOnly ==
  [][\/ UNCHANGED <<couponsExists, coupons>>
     \/ /\ \A i \in DOMAIN coupons :
             i \in DOMAIN coupons' /\ coupons'[i] = coupons[i]
        /\ \A c \in RouteCodes, q \in RoutePrices :
             LET before == validateReply(c, q) IN
               before.code = "200" => validateReply(c, q)' = before]_vars

\* A validate request has just been answered 200 on a catalog that holds a
\* used coupon, with a booking in the store.
C15_Witness ==
  /\ Validated /\ last.code = "200"
  /\ Stored # <<>>
  /\ \E i \in DOMAIN coupons : coupons[i].used = Num(2)

\* The sum of the prices that are not null.
RECURSIVE SumPrices(_)
SumPrices(bookings) ==
  IF bookings = <<>> THEN 0
  ELSE (IF Head(bookings).price = Null THEN 0 ELSE Head(bookings).price[2])
         + SumPrices(Tail(bookings))

\* C17: the analytics request answers with totalBookings the number of
\* stored bookings, confirmed the number with status 'confirmed' (a
\* 'confirmed_mock' booking is not counted), cancelled the number with
\* status 'cancelled', and revenue the sum of the prices that are not null
\* of all bookings, whatever their status; it leaves the stored collection
\* as it was.
C17_AnalyticsIsAFold ==
  [][last'.op = "analytics" =>
       /\ last'.metrics.totalBookings = Len(Stored)
       /\ last'.metrics.confirmed
            = Cardinality({i \in DOMAIN Stored :
                             Stored[i].status = "confirmed"})
       /\ last'.metrics.cancelled
            = Cardinality({i \in DOMAIN Stored :
                             Stored[i].status = "cancelled"})
       /\ last'.metrics.revenue = SumPrices(Stored)
       /\ Stored' = Stored]_vars

\* Analytics has just answered for a store with a cancelled booking that
\* has a price and a 'confirmed_mock' booking, which it did not count as
\* confirmed.
C17_Witness ==
  /\ last.op = "analytics"
  /\ last.metrics.confirmed = 0
  /\ last.metrics.revenue > 0
  /\ \E i \in DOMAIN Stored :
       Stored[i].status = "cancelled" /\ Stored[i].price # Null
  /\ \E i \in DOMAIN Stored : Stored[i].status = "confirmed_mock"

\* C18: whenever a handler is about to read bookings.json, the file holds
\* what one write wrote in full (or the empty collection it was created
\* with): it is not truncated and is no mix of two writes, also with two
\* writers on the one temporary file.
C18_ReadsSeeWholeCollections ==
  \A p \in Procs : reqs[p].pc = "read" => fileState = "whole"

\* The status codes a handler sends.
AnswerCodes == {"200", "201", "400", "404", "409", "500"}

\* C19: every request is answered: a handler that has ended has sent its
\* caller a success or an error response, also when writeFileSafe failed.
C19_EveryRequestAnswered == last # NoResponse => last.code \in AnswerCodes

\* The bookings that are in the way of one on (unitId, date, time): not
\* cancelled, not the booking excludeId, on the same unit, date and time as
\* strings.
InTheWay(bookings, unitId, date, time, excludeId) ==
  {i \in DOMAIN bookings :
     /\ bookings[i].status # "cancelled"
     /\ bookings[i].id # excludeId
     /\ bookings[i].unitId[2] = unitId[2]
     /\ bookings[i].date[2] = date[2]
     /\ bookings[i].time[2] = time[2]}

\* C20: hasConflict returns true exactly when the collection holds a booking
\* that is not cancelled, is not the booking excludeId and has the unitId,
\* date and time of the arguments as strings, also for an absent or an empty
\* excludeId; the collection is after the call what it was before.
C20_HasConflictIsReference ==
  last.op = "hasConflict" =>
    /\ last.result <=>
         InTheWay(last.bookings, last.unitId, last.date, last.time,
                  last.excludeId) # {}
    /\ last.after = last.bookings

\* hasConflict was called with an empty excludeId and returned true, on a
\* cancelled booking of the slot followed by a booking whose unitId is the
\* argument's only as a string.
C20_Witness ==
  /\ last.op = "hasConflict"
  /\ last.result
  /\ last.excludeId = EmptyId
  /\ Len(last.bookings) = 2
  /\ last.bookings[1].status = "cancelled"
  /\ last.bookings[1].unitId = last.unitId
  /\ last.bookings[1].time = last.time
  /\ last.bookings[2].unitId # last.unitId
  /\ String(last.bookings[2].unitId) = String(last.unitId)

\* A non-cancelled booking other than the booking id holds the slot
\* (unitId, date, time).
Occupied(bookings, id, unitId, date, time) ==
  \E i \in DOMAIN bookings :
    /\ bookings[i].id # id
    /\ Active(bookings[i])
    /\ String(bookings[i].unitId) = String(unitId)
    /\ String(bookings[i].date) = String(date)
    /\ String(bookings[i].time) = String(time)

\* C21: reschedule answers 400 for an empty date or time, whatever the id;
\* otherwise 404 for an id not in the store; otherwise 409 when another
\* non-cancelled booking holds the target slot of the unit; create answers
\* 400 for a missing required field, whatever the slot holds.
C21_ErrorOrder ==
  [][/\ last'.op = "reschedule" =>
          IF last'.date = S("") \/ last'.time = S("")
          THEN last'.code = "400"
          ELSE IF ~Known(Stored, last'.id) THEN last'.code = "404"
          ELSE Occupied(Stored, last'.id, Lookup(Stored, last'.id).unitId,
                        last'.date, last'.time) => last'.code = "409"
     /\ (last'.op = "create" /\ ~HasAllFields(last')) =>
          last'.code = "400"]_vars

\* A reschedule with an empty date for an id that is not in the store has
\* just been answered 400, with a booking in the store.
C21_Witness ==
  /\ last.op = "reschedule" /\ last.code = "400"
  /\ last.date = S("")
  /\ Stored # <<>>
  /\ ~Known(Stored, last.id)

\* The status labels of a run, by its MOCK_MODE.
Labels(mockMode) ==
  IF mockMode THEN {"confirmed_mock", "cancelled"}
  ELSE {"pending", "confirmed", "cancelled"}

\* C22: MOCK_MODE alone selects the status labels: with it off every stored
\* booking is pending, confirmed or cancelled and none is confirmed_mock;
\* with it on every stored booking is confirmed_mock or cancelled.
C22_FlagSelectsLabels ==
  \A i \in DOMAIN Stored : Stored[i].status \in Labels(mock)

\* With MOCK_MODE on, a confirm has just been answered 200 for a booking
\* that is now confirmed_mock.
C22_Witness ==
  /\ mock
  /\ last.op = "confirm" /\ last.code = "200"
  /\ Known(Stored, last.id)
  /\ Lookup(Stored, last.id).status = "confirmed_mock"

\* C23: no update is lost: a step that answers a request with a success
\* leaves in the store what the requests answered before it put there:
\* every stored booking stays in the collection, a cancelled one stays
\* cancelled, and every history keeps the entries it had.
C23_NoLostUpdate ==
  [][last'.code \in {"200", "201"} =>
       \A i \in DOMAIN Stored :
         /\ Known(Stored', Stored[i].id)
         /\ LET after == Lookup(Stored', Stored[i].id) IN
              /\ Stored[i].status = "cancelled" => after.status = "cancelled"
              /\ IsPrefix(Stored[i].history, after.history)]_vars

\* C24: in the page, a finalPrice that is not null comes from a coupon
\* validation asked for the slot that is selected now; so the price a
\* confirm sends is no discount computed for a slot selected before.
C24_FinalPriceIsOfSelectedSlot ==
  page.finalPrice # Null =>
    /\ page.selectedSlot # NoSlot
    /\ page.appliedTo[1].slot = page.selectedSlot

\* C25: the payload a confirm sends has a couponCode only if its price is
\* the finalPrice that applying this code to the selected slot gave, and a
\* null couponCode when its price is the slot's undiscounted price.
C25_CouponCodeIsTheOneApplied ==
  [][(page'.creating /\ ~page.creating) =>
       LET payload == page'.sent[1] IN
         /\ payload.couponCode # Null =>
              /\ page.finalPrice # Null
              /\ payload.price = page.finalPrice
              /\ toUpperCase(page.appliedTo[1].code) = payload.couponCode
              /\ page.appliedTo[1].slot = page.selectedSlot
         /\ page.finalPrice = Null => payload.couponCode = Null]_vars

====
